---- MODULE Spec2Model ----
(***************************************************************************)
(* Block-chunked dataset store of machine-academy (src/src/data/mod.rs):   *)
(* the builder create_dataset, which writes {i}.slice files and config.dat,*)
(* and the reader AcademyDataset, which serves get(index) from an LRU      *)
(* cache of blocks guarded by one mutex per slot and one for the ledger.   *)
(*                                                                         *)
(* Option<T> values are sequences of length at most one: None is <<>>,     *)
(* Some(x) is <<x>>.  A missing file is None, an existing one Some(bytes). *)
(***************************************************************************)
EXTENDS Integers, Sequences, FiniteSets, TLC

\* ------------------------------------------------------------------ bounds
MaxLength == 5          \* largest dataset length passed to create_dataset
MaxBlockItems == 2      \* largest block the memory budgets allow
MaxCached == 2          \* largest max_cached_blocks passed to new
MaxCalls == 3           \* number of get calls made on one AcademyDataset
MaxBuilds == 3          \* number of create_dataset invocations on one directory
MaxCrashes == 1         \* number of builds killed before they return

\* ------------------------------------------------------- program constants
\* bincode writes a sequence as a u64 length followed by its items; the
\* items of the tests are u8, one byte each.
LenPrefixBytes == 8
\* ByteGen counts in an AtomicU8: fetch_add wraps at 2^8.
CounterModulus == 256

None == << >>
Some(x) == << x >>

Threads == {"t1", "t2"}
NoThread == "none"

Lengths == 0..MaxLength
Budgets == {0} \cup ((LenPrefixBytes + 2)..(LenPrefixBytes + MaxBlockItems))
Kinds == {"Immut", "Mut"}
SliceIds == 0..MaxLength
Indices == 0..(MaxLength + 1)

VARIABLES
    \* the dataset directory
    config_dat,             \* Option<AcademyDatasetConfig>: the file config.dat
    slice,                  \* slice[i]: Option<Seq(item)>: the file {i}.slice
    torn,                   \* the slice files cut short by a crash: undecodable
    config_torn,            \* config.dat exists but does not decode
    \* create_dataset: its position, arguments and locals
    bpc, length, block_memory_size, gen, counter,
    init_config, first_block, block_size,
    remaining_block_count, small_block_count, block_count, i, block,
    runs,                   \* create_dataset invocations started so far
    \* history of the current invocation
    written,                \* names of the files it created or truncated
    deleted,                \* names of the files it removed
    found_length,           \* Option: length in the manifest it found on entry
    repeats,                \* latest invocations in a row with equal arguments
    replaced,               \* config.dat was written in place of a manifest
                            \* recording another length
    crashes,                \* invocations killed so far
    \* AcademyDataset
    opened, cache, last_used, ds_length, ds_block_size, max_cached_blocks,
    items_lock, last_used_lock, items_poisoned, last_used_poisoned,
    \* get: each calling thread's position and locals
    pc, index, last_used_index, result,
    \* history of the reader
    calls, touched, reads, fills

disk == << config_dat, slice, torn, config_torn >>
journal == << written, deleted, found_length, repeats, replaced, crashes >>
builder == << bpc, length, block_memory_size, gen, counter, init_config,
              first_block, block_size, remaining_block_count,
              small_block_count, block_count, i, block, runs, journal >>
dataset == << opened, cache, last_used, ds_length, ds_block_size,
              max_cached_blocks, items_lock, last_used_lock,
              items_poisoned, last_used_poisoned >>
callers == << pc, index, last_used_index, result >>
history == << calls, touched, reads, fills >>
vars == << disk, builder, dataset, callers, history >>

\* ----------------------------------------------------------------- helpers
Range(s) == { s[n] : n \in DOMAIN s }
Front(s) == SubSeq(s, 1, Len(s) - 1)
Last(s) == s[Len(s)]

\* bincode::serialized_size of a Vec<u8>
serialized_size(v) == LenPrefixBytes + Len(v)

\* ByteGen::gen: fetch_add(1) returns the old value
GenValue(c) == c
GenAdvance(c, num) == (c + num) % CounterModulus

\* num successive gen calls from counter c, in call order
RECURSIVE GenRun(_, _)
GenRun(c, num) ==
    IF num = 0 THEN << >>
    ELSE << GenValue(c) >> \o GenRun(GenAdvance(c, 1), num - 1)

ProbeLoop_Greedy(fb, c, left, mem) ==
    [first_block |-> fb \o GenRun(c, left), counter |-> GenAdvance(c, left)]

\* the first-block loop: push one item, count it, stop once the staged
\* block serializes to block_memory_size bytes or more
RECURSIVE ProbeLoop(_, _, _, _)
ProbeLoop(fb, c, left, mem) ==
    IF left = 0 THEN [first_block |-> fb, counter |-> c]
    ELSE LET fb2 == Append(fb, GenValue(c))
             c2 == GenAdvance(c, 1)
         IN  IF serialized_size(fb2) >= mem
             THEN [first_block |-> fb2, counter |-> c2]
             ELSE ProbeLoop(fb2, c2, left - 1, mem)

LayoutBlockCount_NoRemainder(small, remaining) == remaining + 1

\* block_count: block 0, the full blocks after it, and the remainder block
LayoutBlockCount(small, remaining) ==
    IF small > 0 THEN remaining + 2 ELSE remaining + 1

\* ------------------------------------------------------------------- Init
Init ==
    /\ config_dat = None
    /\ slice = [n \in SliceIds |-> None]
    /\ torn = {}
    /\ config_torn = FALSE
    /\ bpc = "idle"
    /\ length = 0
    /\ block_memory_size = 0
    /\ gen = "Mut"
    /\ counter = 0
    /\ init_config = None
    /\ first_block = << >>
    /\ block_size = 0
    /\ remaining_block_count = 0
    /\ small_block_count = 0
    /\ block_count = 0
    /\ i = 0
    /\ block = << >>
    /\ runs = 0
    /\ written = {}
    /\ deleted = {}
    /\ found_length = None
    /\ repeats = 0
    /\ replaced = FALSE
    /\ crashes = 0
    /\ opened = FALSE
    /\ cache = << >>
    /\ last_used = << >>
    /\ ds_length = 0
    /\ ds_block_size = 0
    /\ max_cached_blocks = 0
    /\ items_lock = << >>
    /\ last_used_lock = NoThread
    /\ items_poisoned = {}
    /\ last_used_poisoned = FALSE
    /\ pc = [t \in Threads |-> "idle"]
    /\ index = [t \in Threads |-> 0]
    /\ last_used_index = [t \in Threads |-> 0]
    /\ result = [t \in Threads |-> None]
    /\ calls = 0
    /\ touched = << >>
    /\ reads = << >>
    /\ fills = << >>

\* ------------------------------------------------------- create_dataset
config_path == "config.dat"
\* format!("{i}.slice")
slice_path(n) == ToString(n) \o ".slice"

skip_Nothing(c, num) == c

\* DataGen::skip / MutDataGen::skip: advance as if num items were produced
skip(c, num) == GenAdvance(c, num)

small_block_index_Past(remaining) == remaining + 2

\* the remainder block's file index: remaining_block_count + 1
small_block_index(remaining) == remaining + 1

Cleared_Kept(v) == v

\* first_block.clear()
Cleared(v) == << >>

AlreadyBuilt_AnyRun(n) == slice[n] # None

\* init_config.is_some() && path.exists(): a block a resumed build skips
AlreadyBuilt(n) == init_config # None /\ slice[n] # None

IsMut_Never(g) == FALSE

\* match gen { DataGenerator::Mut(x) => sequential, Immut(x) => parallel }
IsMut(g) == g = "Mut"

\* File::create(path) and serialize_into(file, items), to completion
WriteSlice(n, items) ==
    /\ slice' = [slice EXCEPT ![n] = Some(items)]
    /\ torn' = torn \ {n}
    /\ written' = written \cup {slice_path(n)}

SameLength_Never(config, len) == FALSE

\* config.length == length: the manifest found is taken for a resume
SameLength(config, len) == config.length = len

\* create_dataset returns: its locals go out of scope
Returned ==
    /\ bpc' = "idle"
    /\ init_config' = None
    /\ first_block' = << >>
    /\ block_size' = 0
    /\ remaining_block_count' = 0
    /\ small_block_count' = 0
    /\ block_count' = 0
    /\ i' = 0
    /\ block' = << >>
    /\ counter' = 0

\* entry: create_dir_all, then look for a manifest of the same length;
\* a manifest of another length is deleted, one that does not decode is
\* left where it is and ignored
create_dataset(len, mem, g) ==
    /\ bpc \in {"idle", "crashed"}
    /\ ~opened
    /\ runs' = runs + 1
    /\ length' = len
    /\ block_memory_size' = mem
    /\ gen' = g
    /\ counter' = 0
    /\ IF config_dat # None /\ SameLength(config_dat[1], len)
       THEN init_config' = config_dat /\ UNCHANGED config_dat
       ELSE init_config' = None /\ config_dat' = None
    /\ first_block' = << >>
    /\ block_size' = 0
    /\ bpc' = "first"
    /\ written' = {}
    /\ deleted' = IF config_dat # None /\ ~SameLength(config_dat[1], len)
                  THEN {config_path} ELSE {}
    /\ found_length' = IF config_dat # None THEN Some(config_dat[1].length)
                       ELSE None
    /\ repeats' = IF runs >= 1 /\ len = length /\ mem = block_memory_size
                     /\ g = gen
                  THEN repeats + 1 ELSE 1
    /\ replaced' = (replaced /\ config_dat # None
                        /\ SameLength(config_dat[1], len))
    /\ UNCHANGED << slice, torn, config_torn, remaining_block_count,
                    small_block_count, block_count, i, block, crashes >>
    /\ UNCHANGED << dataset, callers, history >>

FirstRun == runs = 0 /\ \E len \in Lengths, mem \in Budgets, g \in Kinds :
                create_dataset(len, mem, g)

LaterRun == runs \in 1..(MaxBuilds - 1)
            /\ \E len \in Lengths, mem \in Budgets, g \in Kinds :
                create_dataset(len, mem, g)

\* resume: take the layout from the manifest and skip block 0;
\* fresh build: probe block 0 and write 0.slice
FirstBlock ==
    /\ bpc = "first"
    /\ IF init_config # None
       THEN LET config == init_config[1] IN
            /\ block_size' = config.block_size
            /\ first_block' = << >>
            /\ small_block_count' = (length - config.block_size) % config.block_size
            /\ remaining_block_count' = (length - config.block_size) \div config.block_size
            /\ block_count' = config.block_count
            /\ counter' = skip(counter, config.block_size)
            /\ bpc' = "small"
            /\ UNCHANGED << slice, torn, written >>
       ELSE LET probe == ProbeLoop(<< >>, counter, length, block_memory_size) IN
            /\ first_block' = probe.first_block
            /\ block_size' = Len(probe.first_block)
            /\ counter' = probe.counter
            /\ WriteSlice(0, probe.first_block)
            /\ bpc' = "config"
            /\ UNCHANGED << small_block_count, remaining_block_count, block_count >>
    /\ UNCHANGED << config_dat, config_torn, length, block_memory_size, gen,
                    init_config, i, block, runs, deleted, found_length,
                    repeats,
                    replaced, crashes >>
    /\ UNCHANGED << dataset, callers, history >>

\* fresh build: derive the layout, write config.dat, return if block 0 is
\* the whole dataset.  A block_size of 0 (length 0) divides by zero: panic.
WriteConfig ==
    /\ bpc = "config"
    /\ IF block_size = 0
       THEN /\ bpc' = "panicked"
            /\ UNCHANGED << config_dat, config_torn, written, replaced,
                            init_config, first_block, block_size,
                            remaining_block_count, small_block_count,
                            block_count, i, block, counter >>
       ELSE LET small == (length - block_size) % block_size
                remaining == (length - block_size) \div block_size
                count == LayoutBlockCount(small, remaining)
            IN  /\ config_dat' = Some([block_memory_size |-> block_memory_size,
                                       block_count |-> count,
                                       block_size |-> block_size,
                                       length |-> length])
                /\ config_torn' = FALSE
                /\ written' = written \cup {config_path}
                /\ replaced' = (found_length # None /\ found_length[1] # length)
                /\ IF block_size >= length
                   THEN Returned
                   ELSE /\ small_block_count' = small
                        /\ remaining_block_count' = remaining
                        /\ block_count' = count
                        /\ first_block' = Cleared(first_block)
                        /\ bpc' = "small"
                        /\ UNCHANGED << init_config, block_size, i, block, counter >>
    /\ UNCHANGED << slice, torn, length, block_memory_size, gen, runs,
                    deleted, found_length, repeats, crashes >>
    /\ UNCHANGED << dataset, callers, history >>

\* the remainder block, file index remaining_block_count + 1: generated
\* unless resuming and the file exists, in which case the generator skips
SmallBlock ==
    /\ bpc = "small"
    /\ IF small_block_count > 0
       THEN LET n == small_block_index(remaining_block_count) IN
            IF ~AlreadyBuilt(n)
            THEN LET filled == first_block \o GenRun(counter, small_block_count) IN
                 /\ WriteSlice(n, filled)
                 /\ counter' = GenAdvance(counter, small_block_count)
            ELSE /\ counter' = skip(counter, small_block_count)
                 /\ UNCHANGED << slice, torn, written >>
       ELSE UNCHANGED << slice, torn, written, counter >>
    /\ first_block' = << >>
    /\ i' = block_count
    /\ bpc' = "cleanup"
    /\ UNCHANGED << config_dat, config_torn, length, block_memory_size, gen,
                    init_config, block_size, remaining_block_count,
                    small_block_count, block_count, block, runs, deleted,
                    found_length, repeats,
                    replaced, crashes >>
    /\ UNCHANGED << dataset, callers, history >>

\* one iteration of the stray-file loop: delete {i}.slice if it exists,
\* stop at the first index with no file
Cleanup ==
    /\ bpc = "cleanup"
    /\ IF i \in SliceIds /\ slice[i] # None
       THEN /\ slice' = [slice EXCEPT ![i] = None]
            /\ torn' = torn \ {i}
            /\ deleted' = deleted \cup {slice_path(i)}
            /\ i' = i + 1
            /\ UNCHANGED bpc
       ELSE /\ i' = 1
            /\ bpc' = "blocks"
            /\ UNCHANGED << slice, torn, deleted >>
    /\ UNCHANGED << config_dat, config_torn, length, block_memory_size, gen,
                    counter, init_config, first_block, block_size,
                    remaining_block_count, small_block_count, block_count,
                    block, runs, written, found_length, repeats,
                    replaced, crashes >>
    /\ UNCHANGED << dataset, callers, history >>

\* head of the full-block loop for i in 1..=remaining_block_count: return
\* after the last block; skip a block that exists when resuming; generate
\* a block sequentially (Mut) and write it; or start the parallel map (Immut)
FullBlock ==
    /\ bpc = "blocks"
    /\ IF i > remaining_block_count
       THEN Returned /\ UNCHANGED << slice, torn, written >>
       ELSE IF AlreadyBuilt(i)
       THEN /\ counter' = skip(counter, block_size)
            /\ i' = i + 1
            /\ UNCHANGED << slice, torn, written, bpc, init_config,
                            first_block, block_size, remaining_block_count,
                            small_block_count, block_count, block >>
       ELSE IF IsMut(gen)
       THEN /\ WriteSlice(i, GenRun(counter, block_size))
            /\ counter' = GenAdvance(counter, block_size)
            /\ i' = i + 1
            /\ UNCHANGED << bpc, init_config, first_block, block_size,
                            remaining_block_count, small_block_count,
                            block_count, block >>
       ELSE /\ block' = [p \in 1..block_size |-> None]
            /\ bpc' = "par"
            /\ UNCHANGED << slice, torn, written, counter, i, init_config,
                            first_block, block_size, remaining_block_count,
                            small_block_count, block_count >>
    /\ UNCHANGED << config_dat, config_torn, length, block_memory_size, gen,
                    runs, deleted, found_length, repeats,
                    replaced, crashes >>
    /\ UNCHANGED << dataset, callers, history >>

ParGen_LostUpdate(p) ==
    /\ bpc = "par"
    /\ p \in DOMAIN block
    /\ block[p] = None
    /\ block' = [block EXCEPT ![p] = Some(GenValue(counter))]
    /\ \/ counter' = GenAdvance(counter, 1)
       \/ counter' = counter
    /\ UNCHANGED << disk, bpc, length, block_memory_size, gen, init_config,
                    first_block, block_size, remaining_block_count,
                    small_block_count, block_count, i, runs, journal >>
    /\ UNCHANGED << dataset, callers, history >>

\* one rayon worker runs the closure for position p: one x.gen() call,
\* an atomic fetch_add on the shared generator
ParGen(p) ==
    /\ bpc = "par"
    /\ p \in DOMAIN block
    /\ block[p] = None
    /\ block' = [block EXCEPT ![p] = Some(GenValue(counter))]
    /\ counter' = GenAdvance(counter, 1)
    /\ UNCHANGED << disk, bpc, length, block_memory_size, gen, init_config,
                    first_block, block_size, remaining_block_count,
                    small_block_count, block_count, i, runs, journal >>
    /\ UNCHANGED << dataset, callers, history >>

\* collect() joins the workers; the block is written in position order
ParCollect ==
    /\ bpc = "par"
    /\ \A p \in DOMAIN block : block[p] # None
    /\ WriteSlice(i, [p \in DOMAIN block |-> block[p][1]])
    /\ block' = << >>
    /\ i' = i + 1
    /\ bpc' = "blocks"
    /\ UNCHANGED << config_dat, config_torn, length, block_memory_size, gen,
                    counter, init_config, first_block, block_size,
                    remaining_block_count, small_block_count, block_count,
                    runs, deleted, found_length, repeats,
                    replaced, crashes >>
    /\ UNCHANGED << dataset, callers, history >>

Build ==
    \/ FirstBlock
    \/ WriteConfig
    \/ SmallBlock
    \/ Cleanup
    \/ FullBlock
    \/ \E p \in 1..MaxBlockItems : ParGen(p)
    \/ ParCollect

\* ------------------------------------------------- a build that is killed
\* the process dies: its locals are gone, the directory stays as it is
Crashed ==
    /\ bpc' = "crashed"
    /\ crashes' = crashes + 1
    /\ init_config' = None
    /\ first_block' = << >>
    /\ block_size' = 0
    /\ remaining_block_count' = 0
    /\ small_block_count' = 0
    /\ block_count' = 0
    /\ i' = 0
    /\ block' = << >>
    /\ counter' = 0
    /\ UNCHANGED << length, block_memory_size, gen, runs, deleted,
                    found_length, repeats >>
    /\ UNCHANGED << dataset, callers, history >>

\* killed between two statements
Abort ==
    /\ bpc \in {"first", "config", "small", "cleanup", "blocks", "par"}
    /\ crashes < MaxCrashes
    /\ Crashed
    /\ UNCHANGED << disk, written, replaced >>

\* the slice file the next statement creates and writes, if any
pending_slice ==
    IF bpc = "first" /\ init_config = None THEN Some(0)
    ELSE IF bpc = "small" /\ small_block_count > 0
            /\ ~AlreadyBuilt(small_block_index(remaining_block_count))
    THEN Some(small_block_index(remaining_block_count))
    ELSE IF bpc = "blocks" /\ i <= remaining_block_count /\ ~AlreadyBuilt(i)
            /\ IsMut(gen)
    THEN Some(i)
    ELSE IF bpc = "par" /\ \A p \in DOMAIN block : block[p] # None
    THEN Some(i)
    ELSE None

\* killed between File::create and the end of serialize_into: the slice
\* file exists and holds a prefix of the bytes, which does not decode
TornSlice ==
    /\ pending_slice # None
    /\ crashes < MaxCrashes
    /\ slice' = [slice EXCEPT ![pending_slice[1]] = Some(<< >>)]
    /\ torn' = torn \cup {pending_slice[1]}
    /\ written' = written \cup {slice_path(pending_slice[1])}
    /\ Crashed
    /\ UNCHANGED << config_dat, config_torn, replaced >>

\* the same while config.dat is written
TornConfig ==
    /\ bpc = "config"
    /\ block_size # 0
    /\ crashes < MaxCrashes
    /\ config_dat' = None
    /\ config_torn' = TRUE
    /\ replaced' = FALSE
    /\ written' = written \cup {config_path}
    /\ Crashed
    /\ UNCHANGED << slice, torn >>

Crash == Abort \/ TornSlice \/ TornConfig

NextBuild == FirstRun \/ LaterRun \/ Build

SpecBuild == Init /\ [][NextBuild]_vars

NextCrash == NextBuild \/ Crash

SpecCrash == Init /\ [][NextCrash]_vars

\* --------------------------------------- a directory that loses a file
\* between two builds a slice file is removed from the directory; the next
\* create_dataset finds path.exists() false for it
Lose(n) ==
    /\ bpc = "idle"
    /\ ~opened
    /\ config_dat # None
    /\ slice[n] # None
    /\ slice' = [slice EXCEPT ![n] = None]
    /\ torn' = torn \ {n}
    /\ UNCHANGED << config_dat, config_torn >>
    /\ UNCHANGED << builder, dataset, callers, history >>

Lost == \E n \in SliceIds : Lose(n)

NextLost == NextBuild \/ Lost

SpecLost == Init /\ [][NextLost]_vars

\* ------------------------------------------------------- AcademyDataset
\* new: read config.dat, one empty slot per block, an empty ledger;
\* max_cached_blocks is taken from the caller as given
new(max) ==
    /\ ~opened
    /\ bpc = "idle"
    /\ config_dat # None
    /\ LET config == config_dat[1]
           slots == 0..(config.block_count - 1)
       IN  /\ cache' = [b \in slots |-> << >>]
           /\ items_lock' = [b \in slots |-> NoThread]
           /\ reads' = [b \in slots |-> 0]
           /\ fills' = [b \in slots |-> 0]
           /\ ds_length' = config.length
           /\ ds_block_size' = config.block_size
    /\ opened' = TRUE
    /\ last_used' = << >>
    /\ max_cached_blocks' = max
    /\ UNCHANGED << last_used_lock, items_poisoned, last_used_poisoned,
                    calls, touched >>
    /\ UNCHANGED << disk, builder, callers >>

Open == \E max \in 0..MaxCached : new(max)

block_index(t) == index[t] \div ds_block_size

item_offset_ByBlock(t) == block_index(t)

\* index % self.block_size
item_offset(t) == index[t] % ds_block_size

SlotEmpty_Always(t) == TRUE

\* items.is_empty()
SlotEmpty(t) == cache[block_index(t)] = << >>

LedgerFull_OffByOne == Len(last_used) > max_cached_blocks

\* last_used.len() >= self.max_cached_blocks
LedgerFull == Len(last_used) >= max_cached_blocks

Emptied_Kept(c, victim) == c

\* *cache[last_used_index].items.lock() = Box::new([])
Emptied(c, victim) == [c EXCEPT ![victim] = << >>]

\* a panic unwinds get: every guard the thread holds is dropped, which
\* releases its mutex and marks it poisoned
Panic(t, holds_items, holds_last_used) ==
    /\ pc' = [pc EXCEPT ![t] = "panicked"]
    /\ items_lock' = IF holds_items
                     THEN [items_lock EXCEPT ![block_index(t)] = NoThread]
                     ELSE items_lock
    /\ items_poisoned' = IF holds_items
                         THEN items_poisoned \cup {block_index(t)}
                         ELSE items_poisoned
    /\ last_used_lock' = IF holds_last_used THEN NoThread ELSE last_used_lock
    /\ last_used_poisoned' = (last_used_poisoned \/ holds_last_used)

\* the hit path's loop: pop from the front up to and including the first
\* entry equal to b, push the popped others back in order, push b in front
RECURSIVE PopUntil(_, _, _)
PopUntil(q, b, tmp_indices) ==
    IF q = << >> THEN [rest |-> q, tmp_indices |-> tmp_indices]
    ELSE IF Head(q) = b THEN [rest |-> Tail(q), tmp_indices |-> tmp_indices]
    ELSE PopUntil(Tail(q), b, Append(tmp_indices, Head(q)))

MoveToFront_Stay(q, b) == q

MoveToFront(q, b) ==
    LET popped == PopUntil(q, b, << >>)
    IN  << b >> \o popped.tmp_indices \o popped.rest

\* the most recently touched distinct blocks, newest first
Touch(h, b) == << b >> \o SelectSeq(h, LAMBDA x : x # b)

\* get is called: an index past the last slot returns None at once
get(t, idx) ==
    /\ opened
    /\ pc[t] = "idle"
    /\ calls < MaxCalls
    /\ calls' = calls + 1
    /\ index' = [index EXCEPT ![t] = idx]
    /\ IF (idx \div ds_block_size) \in DOMAIN cache
       THEN /\ pc' = [pc EXCEPT ![t] = "lock_items"]
            /\ UNCHANGED result
       ELSE /\ pc' = [pc EXCEPT ![t] = "returned"]
            /\ result' = [result EXCEPT ![t] = None]
    /\ UNCHANGED << last_used_index, touched, reads, fills >>
    /\ UNCHANGED << disk, builder, dataset >>

\* block.items.lock().unwrap()
LockItems(t) ==
    /\ pc[t] = "lock_items"
    /\ items_lock[block_index(t)] = NoThread
    /\ IF block_index(t) \in items_poisoned
       THEN Panic(t, FALSE, FALSE)
       ELSE /\ items_lock' = [items_lock EXCEPT ![block_index(t)] = t]
            /\ pc' = [pc EXCEPT ![t] = "lock_last_used"]
            /\ UNCHANGED << last_used_lock, items_poisoned, last_used_poisoned >>
    /\ UNCHANGED << opened, cache, last_used, ds_length, ds_block_size,
                    max_cached_blocks >>
    /\ UNCHANGED << disk, builder, index, last_used_index, result, history >>

\* self.last_used.lock().unwrap()
LockLastUsed(t) ==
    /\ pc[t] = "lock_last_used"
    /\ last_used_lock = NoThread
    /\ IF last_used_poisoned
       THEN Panic(t, TRUE, FALSE)
       ELSE /\ last_used_lock' = t
            /\ pc' = [pc EXCEPT ![t] = "check"]
            /\ UNCHANGED << items_lock, items_poisoned, last_used_poisoned >>
    /\ UNCHANGED << opened, cache, last_used, ds_length, ds_block_size,
                    max_cached_blocks >>
    /\ UNCHANGED << disk, builder, index, last_used_index, result, history >>

\* items.is_empty(); on a miss with a full ledger, pop_back().unwrap()
Check(t) ==
    /\ pc[t] = "check"
    /\ IF ~SlotEmpty(t)
       THEN /\ pc' = [pc EXCEPT ![t] = "hit"]
            /\ UNCHANGED << last_used, last_used_index, items_lock,
                            last_used_lock, items_poisoned, last_used_poisoned >>
       ELSE IF LedgerFull
       THEN IF last_used = << >>
            THEN /\ Panic(t, TRUE, TRUE)
                 /\ UNCHANGED << last_used, last_used_index >>
            ELSE /\ last_used_index' = [last_used_index EXCEPT ![t] = Last(last_used)]
                 /\ last_used' = Front(last_used)
                 /\ pc' = [pc EXCEPT ![t] = "evict"]
                 /\ UNCHANGED << items_lock, last_used_lock, items_poisoned,
                                 last_used_poisoned >>
       ELSE /\ pc' = [pc EXCEPT ![t] = "load"]
            /\ UNCHANGED << last_used, last_used_index, items_lock,
                            last_used_lock, items_poisoned, last_used_poisoned >>
    /\ UNCHANGED << opened, cache, ds_length, ds_block_size, max_cached_blocks >>
    /\ UNCHANGED << disk, builder, index, result, history >>

\* cache[last_used_index].items.lock().unwrap(): the victim's slot is
\* locked while the thread holds its own slot and the ledger
LockVictim(t) ==
    /\ pc[t] = "evict"
    /\ items_lock[last_used_index[t]] = NoThread
    /\ IF last_used_index[t] \in items_poisoned
       THEN Panic(t, TRUE, TRUE)
       ELSE /\ items_lock' = [items_lock EXCEPT ![last_used_index[t]] = t]
            /\ pc' = [pc EXCEPT ![t] = "emptying"]
            /\ UNCHANGED << last_used_lock, items_poisoned, last_used_poisoned >>
    /\ UNCHANGED << opened, cache, last_used, ds_length, ds_block_size,
                    max_cached_blocks >>
    /\ UNCHANGED << disk, builder, index, last_used_index, result, history >>

\* the victim's slot is emptied and its temporary guard dropped
Evict(t) ==
    /\ pc[t] = "emptying"
    /\ cache' = Emptied(cache, last_used_index[t])
    /\ items_lock' = [items_lock EXCEPT ![last_used_index[t]] = NoThread]
    /\ pc' = [pc EXCEPT ![t] = "load"]
    /\ UNCHANGED << opened, last_used, ds_length, ds_block_size,
                    max_cached_blocks, last_used_lock, items_poisoned,
                    last_used_poisoned >>
    /\ UNCHANGED << disk, builder, index, last_used_index, result, history >>

\* push_front(block_index), then read {block_index}.slice into the slot
Load(t) ==
    /\ pc[t] = "load"
    /\ last_used' = << block_index(t) >> \o last_used
    /\ touched' = Touch(touched, block_index(t))
    /\ IF slice[block_index(t)] = None \/ block_index(t) \in torn
       THEN /\ Panic(t, TRUE, TRUE)
            /\ UNCHANGED << cache, reads, fills >>
       ELSE /\ cache' = [cache EXCEPT ![block_index(t)] = slice[block_index(t)][1]]
            /\ reads' = [reads EXCEPT ![block_index(t)] = @ + 1]
            /\ fills' = [fills EXCEPT ![block_index(t)] =
                            IF cache[block_index(t)] = << >>
                               /\ slice[block_index(t)][1] # << >>
                            THEN @ + 1 ELSE @]
            /\ pc' = [pc EXCEPT ![t] = "ret"]
            /\ UNCHANGED << items_lock, last_used_lock, items_poisoned,
                            last_used_poisoned >>
    /\ UNCHANGED << opened, ds_length, ds_block_size, max_cached_blocks >>
    /\ UNCHANGED << disk, builder, index, last_used_index, result, calls >>

\* the slot is resident: move block_index to the front of the ledger
Hit(t) ==
    /\ pc[t] = "hit"
    /\ last_used' = MoveToFront(last_used, block_index(t))
    /\ touched' = Touch(touched, block_index(t))
    /\ pc' = [pc EXCEPT ![t] = "ret"]
    /\ UNCHANGED << opened, cache, ds_length, ds_block_size, max_cached_blocks,
                    items_lock, last_used_lock, items_poisoned,
                    last_used_poisoned >>
    /\ UNCHANGED << disk, builder, index, last_used_index, result, calls,
                    reads, fills >>

\* items.get(index % block_size).cloned(); both guards are dropped
Ret(t) ==
    /\ pc[t] = "ret"
    /\ LET items == cache[block_index(t)]
           offset == item_offset(t)
       IN  result' = [result EXCEPT ![t] =
                        IF offset < Len(items) THEN Some(items[offset + 1])
                        ELSE None]
    /\ items_lock' = [items_lock EXCEPT ![block_index(t)] = NoThread]
    /\ last_used_lock' = NoThread
    /\ pc' = [pc EXCEPT ![t] = "returned"]
    /\ UNCHANGED << opened, cache, last_used, ds_length, ds_block_size,
                    max_cached_blocks, items_poisoned, last_used_poisoned >>
    /\ UNCHANGED << disk, builder, index, last_used_index, history >>

\* the caller takes the result and is free to call again
Taken(t) ==
    /\ pc[t] = "returned"
    /\ pc' = [pc EXCEPT ![t] = "idle"]
    /\ index' = [index EXCEPT ![t] = 0]
    /\ last_used_index' = [last_used_index EXCEPT ![t] = 0]
    /\ result' = [result EXCEPT ![t] = None]
    /\ UNCHANGED << disk, builder, dataset, history >>

Read ==
    \/ \E t \in Threads, idx \in Indices : get(t, idx)
    \/ \E t \in Threads : LockItems(t)
    \/ \E t \in Threads : LockLastUsed(t)
    \/ \E t \in Threads : Check(t)
    \/ \E t \in Threads : LockVictim(t)
    \/ \E t \in Threads : Evict(t)
    \/ \E t \in Threads : Load(t)
    \/ \E t \in Threads : Hit(t)
    \/ \E t \in Threads : Ret(t)
    \/ \E t \in Threads : Taken(t)

\* one build of an empty directory, then readers
Next == FirstRun \/ Build \/ Open \/ Read

Spec == Init /\ [][Next]_vars

\* ================================================================ claims
Resident == { b \in DOMAIN cache : cache[b] # << >> }
NoDuplicates(q) == \A m, n \in DOMAIN q : m # n => q[m] # q[n]
Answered(t) == pc[t] = "returned"
\* the threads that hold both guards of their slot and decided on a miss
Missing(t) == pc[t] \in {"evict", "emptying", "load"}

\* C1: with an exclusive generator emitting g_0, g_1, ..., every get(i) with
\* i < length on a store built in an empty directory returns g_i.
C1_RoundTripInOrder ==
    \A t \in Threads :
        (gen = "Mut" /\ Answered(t) /\ index[t] < ds_length)
            => result[t] = Some(GenRun(0, ds_length)[index[t] + 1])

\* C2: no state has one thread holding the ledger lock and waiting for the
\* eviction victim's slot lock while another thread holds that slot lock and
\* waits for the ledger lock.
C2_NoLockCycle ==
    ~ \E t1, t2 \in Threads :
        /\ t1 # t2
        /\ pc[t1] = "evict"
        /\ last_used_lock = t1
        /\ items_lock[last_used_index[t1]] = t2
        /\ pc[t2] = "lock_last_used"

\* C3: with max_cached_blocks = k >= 1 at most k slots are non-empty in
\* every state, and once more than k distinct blocks have been touched the
\* non-empty slots are exactly the k most recently touched blocks (whenever
\* no get holds the ledger).
C3_LruBound ==
    (opened /\ max_cached_blocks >= 1) =>
        /\ Cardinality(Resident) <= max_cached_blocks
        /\ (last_used_lock = NoThread /\ Len(touched) > max_cached_blocks)
              => Resident = Range(SubSeq(touched, 1, max_cached_blocks))

\* three distinct blocks touched through a cache of two
C3_Witness ==
    /\ opened
    /\ max_cached_blocks = 2
    /\ last_used_lock = NoThread
    /\ Len(touched) = 3
    /\ Cardinality(Resident) = 2

\* C4: whenever the ledger lock is free, the ledger has no duplicates and
\* holds a block index if and only if that block's slot is non-empty.
C4_LedgerMatchesSlots ==
    (opened /\ last_used_lock = NoThread) =>
        /\ NoDuplicates(last_used)
        /\ Range(last_used) = Resident

\* after an eviction, with another call holding its slot and waiting
C4_Witness ==
    /\ opened
    /\ last_used_lock = NoThread
    /\ max_cached_blocks = 1
    /\ Len(last_used) = 1
    /\ Len(touched) = 2
    /\ \E t \in Threads : pc[t] = "lock_last_used"

\* C5: a get that returns gives None if and only if its index is >= length,
\* also for an index inside the unused tail of a short remainder block.
C5_NoneIffOutOfRange ==
    \A t \in Threads :
        Answered(t) => (result[t] = None <=> index[t] >= ds_length)

\* an answer for an index in the tail of the short remainder block
C5_Witness ==
    \E t \in Threads :
        /\ Answered(t)
        /\ index[t] >= ds_length
        /\ block_index(t) \in Resident
        /\ Len(cache[block_index(t)]) < ds_block_size
        /\ result[t] = None

\* C6: after a build with the parallel-safe counter generator, gets of
\* indices below length return values of 0..length-1, different indices
\* returning different values.
C6_ExactlyOnce ==
    gen = "Immut" =>
        \A t1, t2 \in Threads :
            (Answered(t1) /\ index[t1] < ds_length) =>
                /\ result[t1] # None
                /\ result[t1][1] \in 0..(ds_length - 1)
                /\ (Answered(t2) /\ index[t2] < ds_length /\ index[t1] # index[t2])
                      => result[t1] # result[t2]

\* two answers from one block that the workers filled out of position order
C6_Witness ==
    /\ gen = "Immut"
    /\ \E t1, t2 \in Threads :
        /\ Answered(t1) /\ Answered(t2)
        /\ index[t1] < index[t2] /\ index[t2] < ds_length
        /\ block_index(t1) = block_index(t2)
        /\ block_index(t1) >= 1
        /\ result[t1] # None /\ result[t2] # None
        /\ result[t1][1] > result[t2][1]

\* C7: whatever budget the cache is opened with, at least one block can be
\* resident, so no get fails.
C7_GetNeverFails ==
    \A t \in Threads : pc[t] # "panicked"

\* C8: when a get that resolved to a slot is about to return, its block
\* index is at the front of the ledger.
C8_FrontOnReturn ==
    \A t \in Threads :
        pc[t] = "ret" => (last_used # << >> /\ Head(last_used) = block_index(t))

\* a hit on the block that was at the back of a ledger of two
C8_Witness ==
    \E t \in Threads :
        /\ pc[t] = "ret"
        /\ Len(last_used) = 2
        /\ Head(last_used) = block_index(t)
        /\ touched = last_used
        /\ reads[last_used[1]] = 1
        /\ reads[last_used[2]] = 1
        /\ fills[last_used[2]] = 1
        /\ calls = 3
        /\ \A u \in Threads \ {t} : Answered(u) /\ block_index(u) = block_index(t)

\* C9: every disk read of a block fills an empty slot (reads = transitions
\* from empty to resident), and no two threads are on the miss path of the
\* same block at once.
C9_OneLoadPerMiss ==
    opened =>
        /\ \A b \in DOMAIN cache : reads[b] = fills[b]
        /\ \A t1, t2 \in Threads :
              (t1 # t2 /\ Missing(t1) /\ Missing(t2))
                  => block_index(t1) # block_index(t2)

\* two concurrent calls for one block: one was answered from its own load,
\* the other found the slot resident
C9_Witness ==
    \E t1, t2 \in Threads :
        /\ t1 # t2
        /\ Answered(t1)
        /\ pc[t2] = "hit"
        /\ block_index(t1) = block_index(t2)
        /\ calls = 2
        /\ reads[block_index(t1)] = 1

\* C10: the manifest on disk satisfies the layout formula: block_count =
\* (length - block_size) / block_size + 1, plus 1 exactly when
\* (length - block_size) % block_size > 0.
C10_Layout ==
    config_dat # None =>
        LET c == config_dat[1] IN
        /\ 1 <= c.block_size
        /\ c.block_size <= c.length
        /\ c.block_count = (c.length - c.block_size) \div c.block_size + 1
                           + (IF (c.length - c.block_size) % c.block_size > 0
                              THEN 1 ELSE 0)

\* a second, fresh build wrote a manifest with full blocks and a remainder
C10_Witness ==
    /\ config_dat # None
    /\ runs = 2
    /\ init_config = None
    /\ bpc = "small"
    /\ (config_dat[1].length - config_dat[1].block_size) % config_dat[1].block_size > 0
    /\ config_dat[1].block_count >= 3

\* ------------------------------------------------- claims on the builder
Present == { n \in SliceIds : slice[n] # None }
\* the latest create_dataset returned, and no invocation was ever killed
Completed == bpc = "idle" /\ runs >= 1 /\ crashes = 0
Manifest == config_dat[1]
SmallCount(c) == (c.length - c.block_size) % c.block_size
RemainingCount(c) == (c.length - c.block_size) \div c.block_size
RECURSIVE ItemTotal(_)
ItemTotal(n) ==
    IF n = 0 THEN 0 ELSE ItemTotal(n - 1) + Len(slice[n - 1][1])

\* C11: after create_dataset completes on an empty directory, the directory
\* holds config.dat and exactly the files {i}.slice for i in 0..block_count.
C11_DirectoryContents ==
    (Completed /\ runs = 1) =>
        /\ config_dat # None
        /\ ~config_torn
        /\ torn = {}
        /\ Present = 0..(Manifest.block_count - 1)

\* full blocks and a remainder block: 0.slice, 1.slice, 2.slice, config.dat
C11_Witness ==
    /\ Completed /\ runs = 1
    /\ config_dat # None
    /\ Manifest.block_count = 3
    /\ SmallCount(Manifest) > 0
    /\ Present = {0, 1, 2}

\* the latest invocation found no manifest of its length: a fresh build
FreshBuild == found_length # Some(length)

\* C12: after a completed fresh build every slice file of the layout holds
\* block_size items, except the highest-indexed one when small_block_count
\* > 0, which holds small_block_count items; the counts sum to length.
C12_BlockSizes ==
    (Completed /\ FreshBuild) =>
        /\ config_dat # None
        /\ \A n \in 0..(Manifest.block_count - 1) :
              /\ slice[n] # None
              /\ Len(slice[n][1]) =
                    IF SmallCount(Manifest) > 0 /\ n = Manifest.block_count - 1
                    THEN SmallCount(Manifest)
                    ELSE Manifest.block_size
        /\ ItemTotal(Manifest.block_count) = Manifest.length

\* two full blocks of 2 and a remainder block of 1
C12_Witness ==
    /\ Completed /\ FreshBuild
    /\ config_dat # None
    /\ Manifest.block_count = 3
    /\ Manifest.block_size = 2
    /\ Len(slice[2][1]) = 1
    /\ Len(slice[1][1]) = 2

\* C13: a create_dataset invoked again with the arguments of the build that
\* completed before it creates, truncates and deletes no file.
C13_ResumeWritesNothing ==
    (crashes = 0 /\ repeats >= 2 /\ found_length = Some(length)) =>
        (written = {} /\ deleted = {})

\* C14: a complete build with a length smaller than that of the complete
\* build before it ends with a manifest of the new length and with no
\* slice file of index >= the new block_count.
C14_StaleCleanup ==
    (Completed /\ found_length # None /\ found_length[1] > length) =>
        /\ config_dat # None
        /\ Manifest.length = length
        /\ \A n \in SliceIds : n >= Manifest.block_count => slice[n] = None

\* C15: a slice file cut short by a crash is never taken for a built block:
\* when a later build returns, no slice file of the layout is a torn one.
C15_NoTornBlockKept ==
    (bpc = "idle" /\ config_dat # None) =>
        \A n \in 0..(Manifest.block_count - 1) : n \notin torn

\* the directory one uninterrupted create_dataset(len, mem, Mut) leaves in
\* an empty directory: block 0, the manifest, the remainder block, then the
\* full blocks, each drawn from the generator in that order
fresh_build(len, mem) ==
    LET probe == ProbeLoop(<< >>, 0, len, mem)
        size == Len(probe.first_block)
        small == (len - size) % size
        remaining == (len - size) \div size
        after_small == GenAdvance(probe.counter, small)
    IN  [config_dat |-> Some([block_memory_size |-> mem,
                              block_count |-> LayoutBlockCount(small, remaining),
                              block_size |-> size,
                              length |-> len]),
         slice |-> [n \in SliceIds |->
                      IF n = 0 THEN Some(probe.first_block)
                      ELSE IF small > 0 /\ n = small_block_index(remaining)
                      THEN Some(GenRun(probe.counter, small))
                      ELSE IF n \in 1..remaining
                      THEN Some(GenRun(GenAdvance(after_small, (n - 1) * size), size))
                      ELSE None]]

\* every invocation so far had the same arguments, with an exclusive generator
SameBuildRetried == runs >= 1 /\ repeats = runs /\ gen = "Mut" /\ length >= 1

\* C16: when a build of an empty directory with an exclusive generator is
\* killed between file writes and the identical build is invoked again,
\* the manifest and slice files it returns with are those of one
\* uninterrupted build.
C16_RetryCompletes ==
    (bpc = "idle" /\ SameBuildRetried /\ torn = {} /\ ~config_torn) =>
        /\ config_dat = fresh_build(length, block_memory_size).config_dat
        /\ slice = fresh_build(length, block_memory_size).slice

\* killed after the manifest was written; the retry resumed, skipped what
\* was there and wrote the rest
C16_Witness ==
    /\ bpc = "idle" /\ SameBuildRetried /\ torn = {} /\ ~config_torn
    /\ crashes >= 1
    /\ found_length = Some(length)
    /\ config_dat # None
    /\ Manifest.block_count = 3
    /\ written = {slice_path(1)}

\* this invocation found a manifest recording another length
LengthMismatch == found_length # None /\ found_length[1] # length

\* C17: when create_dataset finds a manifest with a different length and
\* returns, the old manifest was deleted and a new one written whose
\* block_size is derived from the memory budget, and every block file of
\* the new layout was written by this invocation.
C17_MismatchRebuilds ==
    (bpc = "idle" /\ LengthMismatch) =>
        /\ config_path \in deleted
        /\ config_path \in written
        /\ config_dat # None
        /\ Manifest.length = length
        /\ Manifest.block_size =
               Len(ProbeLoop(<< >>, 0, length, block_memory_size).first_block)
        /\ \A n \in 0..(Manifest.block_count - 1) :
               slice_path(n) \in written /\ slice[n] # None

\* a three-block store rebuilt over files of an earlier, different build
C17_Witness ==
    /\ bpc = "idle" /\ LengthMismatch
    /\ config_dat # None
    /\ Manifest.block_count = 3
    /\ written = {config_path, slice_path(0), slice_path(1), slice_path(2)}
    /\ found_length[1] > length

\* C18: while create_dataset runs on a directory whose config.dat exists
\* but does not decode, it writes no file and deletes no file.
C18_UndecodableManifestFatal ==
    (config_torn /\ bpc \notin {"idle", "crashed"}) =>
        (written = {} /\ deleted = {})

\* items the generator has produced or skipped when the build stands
\* before the remainder block, before the cleanup, and before full block i
SequentialPosition ==
    CASE bpc = "small" -> block_size
      [] bpc = "cleanup" -> block_size + small_block_count
      [] bpc = "blocks" ->
             block_size + small_block_count + (i - 1) * block_size
      [] OTHER -> counter

\* C19: with an exclusive (Mut) generator no block is ever generated by
\* parallel workers, and the generator is consumed in order: block 0, then
\* the remainder block, then full blocks 1..remaining_block_count.
C19_ExclusiveSequential ==
    (gen = "Mut" /\ runs >= 1) =>
        /\ bpc # "par"
        /\ block = << >>
        /\ counter = SequentialPosition % CounterModulus

\* an exclusive generator that has produced block 0, the remainder block
\* and full block 1, in that order
C19_Witness ==
    /\ gen = "Mut" /\ bpc = "blocks"
    /\ i = 2
    /\ small_block_count > 0
    /\ init_config = None
    /\ written = {slice_path(0), config_path,
                  slice_path(small_block_index(remaining_block_count)),
                  slice_path(1)}

\* C20: once create_dataset is past its cleanup loop, no slice file with an
\* index at or beyond block_count is left, whatever the directory held.
C20_NoStrayAfterCleanup ==
    (bpc \in {"blocks", "par"}) =>
        \A n \in SliceIds : n >= block_count => slice[n] = None

\* a build of one length, then the same exclusive-generator build of another
\* length invoked again and again, the first of them having replaced the
\* older manifest with its own
RebuildRetried ==
    /\ runs >= 3 /\ repeats = runs - 1
    /\ gen = "Mut" /\ length >= 1
    /\ replaced /\ found_length = Some(length)

\* C21: when a build of another length replaced the manifest, was killed
\* before it had rewritten every block, and is retried to completion, each
\* slice file of the layout holds what a build of an empty directory with
\* these arguments writes.
C21_RetryAfterAbortedRebuild ==
    (bpc = "idle" /\ RebuildRetried /\ torn = {} /\ config_dat # None) =>
        \A n \in 0..(Manifest.block_count - 1) :
            slice[n] = fresh_build(length, block_memory_size).slice[n]

\* the build is past block 0 and knows its layout
LayoutKnown == bpc \in {"small", "cleanup", "blocks", "par"}

\* the generator position a block starts at in an uninterrupted build
BlockStart(n) ==
    IF n = 0 THEN 0
    ELSE IF small_block_count > 0 /\ n = remaining_block_count + 1
    THEN block_size
    ELSE block_size + small_block_count + (n - 1) * block_size

BlockItems(n) ==
    IF small_block_count > 0 /\ n = remaining_block_count + 1
    THEN small_block_count ELSE block_size

\* items produced so far by the workers of the parallel map
Produced == Cardinality({ p \in DOMAIN block : block[p] # None })

\* generator items consumed, by gen calls and skips, at each point of a build
ExpectedPosition ==
    CASE bpc = "small" -> block_size
      [] bpc = "cleanup" -> block_size + small_block_count
      [] bpc = "blocks" ->
             block_size + small_block_count + (i - 1) * block_size
      [] bpc = "par" ->
             block_size + small_block_count + (i - 1) * block_size + Produced
      [] OTHER -> counter

\* C22: in every build, fresh or resumed, whichever slice files are already
\* there, the generator has advanced by gen calls plus skips to exactly the
\* position an uninterrupted build has at that point, so that it stands at
\* length when the build returns; and each block written by the build holds
\* the items of the generator positions that block has in an uninterrupted
\* build.
C22_GeneratorPosition ==
    /\ LayoutKnown => counter = ExpectedPosition % CounterModulus
    /\ (bpc = "blocks" /\ i > remaining_block_count)
           => counter = length % CounterModulus
    /\ (bpc = "config" /\ block_size >= length) => counter = length
    /\ LayoutKnown =>
         \A n \in SliceIds :
            (slice_path(n) \in written /\ n \notin torn /\ slice[n] # None) =>
               LET expected == GenRun(BlockStart(n), BlockItems(n)) IN
               IF gen = "Mut" THEN slice[n][1] = expected
               ELSE /\ Range(slice[n][1]) = Range(expected)
                    /\ Len(slice[n][1]) = Len(expected)

\* a resumed build that skipped block 0 (its file gone) and the remainder
\* block, and generated full block 1, whose file was gone, from positions
\* 3 and 4
C22_Witness ==
    /\ bpc = "blocks" /\ i > remaining_block_count
    /\ init_config # None
    /\ block_size = 2 /\ remaining_block_count = 1 /\ small_block_count = 1
    /\ written = {slice_path(1)}
    /\ slice[0] = None
    /\ slice[1] = Some(GenRun(3, 2))
    /\ counter = length

\* the slot locks a thread holds
HeldSlots(t) == { b \in DOMAIN items_lock : items_lock[b] = t }
LocksHeld(t) ==
    Cardinality(HeldSlots(t)) + (IF last_used_lock = t THEN 1 ELSE 0)

\* C23: a thread in get holds at most two locks, the lock of the slot its
\* index falls in and the ledger lock, and never the lock of another slot.
C23_AtMostTwoLocks ==
    opened =>
        \A t \in Threads :
            /\ LocksHeld(t) <= 2
            /\ HeldSlots(t) \subseteq {block_index(t)}

\* C24: no state has one thread reading a block from disk inside get while
\* another thread, whose get is for a different block that is already
\* resident, waits for a lock the first thread holds.
C24_ResidentReadNotBlocked ==
    ~ \E t1, t2 \in Threads :
        /\ t1 # t2
        /\ pc[t1] = "load"
        /\ last_used_lock = t1
        /\ pc[t2] = "lock_last_used"
        /\ block_index(t2) # block_index(t1)
        /\ cache[block_index(t2)] # << >>

\* the ledger without one block's entries
Others(q, b) == SelectSeq(q, LAMBDA x : x # b)

C26_OutOfRangeNoEffect ==
    \A t \in Threads :
        (opened /\ pc[t] # "idle" /\ index[t] >= ds_length) =>
            pc[t] \notin {"evict", "emptying", "load", "hit", "ret"}

\* the block lengths whose serialized size reaches the memory budget
Reaching ==
    { n \in 1..length : serialized_size(GenRun(0, n)) >= block_memory_size }
Smallest(S) == CHOOSE n \in S : \A m \in S : n <= m

\* C27: in a fresh build with length >= 1, block_size is the smallest
\* n >= 1 whose first n items serialize to at least the memory budget, or
\* length when no n <= length does; so 1 <= block_size <= length whatever
\* the budget.
C27_BlockSizeDerivation ==
    (bpc = "config" /\ length >= 1) =>
        /\ block_size = IF Reaching = {} THEN length ELSE Smallest(Reaching)
        /\ 1 <= block_size /\ block_size <= length
        /\ first_block = GenRun(0, block_size)

\* a budget of 0, smaller than one serialized item: the first item reaches it
C27_Witness ==
    /\ bpc = "config"
    /\ init_config = None
    /\ block_memory_size = 0 /\ length = 3
    /\ block_size = 1
    /\ slice[0] = Some(<< 0 >>)

\* the invocation found a manifest recording the length it was given
Resumed == runs >= 1 /\ found_length = Some(length)

\* C28: an invocation that finds a manifest with its own length neither
\* writes nor deletes config.dat, and works with the manifest's block_size
\* and block_count, whatever memory budget it was given.
C28_ResumeKeepsManifest ==
    Resumed =>
        /\ config_path \notin written
        /\ config_path \notin deleted
        /\ config_dat # None
        /\ bpc \notin {"idle", "crashed"} => init_config = config_dat
        /\ LayoutKnown =>
              /\ block_size = Manifest.block_size
              /\ block_count = Manifest.block_count

\* a resume given a budget of 0, which in a fresh build makes blocks of one
\* item, working with the manifest's blocks of two
C28_Witness ==
    /\ Resumed /\ LayoutKnown
    /\ config_dat # None
    /\ block_memory_size = 0
    /\ Manifest.block_memory_size # 0
    /\ block_size = 2 /\ block_count = 3
    /\ bpc = "blocks"

\* C29: where a build that found a manifest with its own length returns,
\* every slice file of the manifest's layout exists, whichever of them
\* were missing when it was invoked.
C29_ResumeLeavesCompleteStore ==
    (Resumed /\ bpc = "blocks" /\ i > remaining_block_count) =>
        \A n \in 0..(block_count - 1) : slice[n] # None

\* C30: a fresh build whose block 0 is the whole dataset, the empty dataset
\* included, does not fail: it returns having written 0.slice and a
\* manifest with block_count = 1.
C30_SingleBlockReturns ==
    /\ bpc # "panicked"
    /\ (bpc = "idle" /\ runs >= 1 /\ ~Resumed /\ config_dat # None
          /\ Manifest.block_size >= length) =>
            /\ Manifest.block_count = 1
            /\ written = {slice_path(0), config_path}
            /\ slice[0] # None
====
